---- MODULE Spec2Model ----
(***************************************************************************)
(* Model of the i18n bulk translation runner (TranslationRunner and       *)
(* AwsTranslateAndS3) together with its JSON helpers.                      *)
(*                                                                         *)
(* JavaScript strings are sequences of one-character strings, so that     *)
(* joining keys with "." , splitting them again and scanning a value for  *)
(* placeholders are computed and not assumed.  A JSON value is a record   *)
(* [t, v]: t = "obj" with v the ordered sequence of entries [k, n],       *)
(* t = "str" with v the characters, t = "undef" for undefined.            *)
(***************************************************************************)
EXTENDS Integers, Sequences, FiniteSets, TLC

\* ------------------------------------------------------------------ bounds
MaxModules == 2
MaxPolls == 3

\* ------------------------------------------------------------ JSON values
Str(s) == [t |-> "str", v |-> s]
Obj(e) == [t |-> "obj", v |-> e]
Undefined == [t |-> "undef", v |-> <<>>]
Thrown == [t |-> "throw", v |-> <<>>]
Entry(k, n) == [k |-> k, n |-> n]

Range(s) == {s[i] : i \in 1..Len(s)}
Last(q) == q[Len(q)]
HasOwn(map, k) == \E i \in 1..Len(map) : map[i].k = k
Get(map, k) == IF HasOwn(map, k) THEN map[CHOOSE i \in 1..Len(map) : map[i].k = k].n ELSE Undefined
\* obj[k] = n on an ordinary object: an own key keeps its place, a new one is appended
SetProp(map, k, n) ==
  IF HasOwn(map, k) THEN [i \in 1..Len(map) |-> IF map[i].k = k THEN Entry(k, n) ELSE map[i]]
  ELSE Append(map, Entry(k, n))

\* ---------------------------------------------------------------- flatten
\* const key = prefix ? `${prefix}.${k}` : k
JoinKeyWithoutPrefix(prefix, k) == k
JoinKey(prefix, k) == IF prefix # <<>> THEN prefix \o <<".">> \o k ELSE k

RECURSIVE flattenJson(_, _, _)
RECURSIVE FlattenEntries(_, _, _, _)
FlattenEntries(es, i, prefix, out) ==
  IF i > Len(es) THEN out
  ELSE LET key == JoinKey(prefix, es[i].k)
           v   == es[i].n
       IN FlattenEntries(es, i + 1, prefix,
             IF v.t = "obj" THEN flattenJson(v, key, out) ELSE SetProp(out, key, v))
flattenJson(obj, prefix, out) ==
  IF obj.t # "obj" THEN out ELSE FlattenEntries(obj.v, 1, prefix, out)

\* -------------------------------------------------------------- unflatten
RECURSIVE SplitFrom(_, _, _, _)
SplitFrom(s, i, cur, acc) ==
  IF i > Len(s) THEN Append(acc, cur)
  ELSE IF s[i] = "." THEN SplitFrom(s, i + 1, <<>>, Append(acc, cur))
  ELSE SplitFrom(s, i + 1, Append(cur, s[i]), acc)
SplitDots(s) == SplitFrom(s, 1, <<>>, <<>>)

\* the walk of one key: cur is the node reached, i the index of the part
RECURSIVE InsertAt(_, _, _, _)
InsertAt(cur, parts, i, v) ==
  LET part == parts[i]
      isLeaf == i = Len(parts)
  IN IF cur.t = "throw" THEN cur
     ELSE IF cur.t = "undef" THEN Thrown
     ELSE IF cur.t # "obj" THEN (IF isLeaf THEN cur ELSE Thrown)
     ELSE IF ~HasOwn(cur.v, part)
          THEN IF isLeaf THEN Obj(SetProp(cur.v, part, v))
               ELSE LET sub == InsertAt(Obj(<<>>), parts, i + 1, v)
                    IN IF sub.t = "throw" THEN Thrown ELSE Obj(SetProp(cur.v, part, sub))
     ELSE IF isLeaf THEN Obj(SetProp(cur.v, part, v))
     ELSE LET old == Get(cur.v, part)
              sub == IF old.t = "obj" THEN InsertAt(old, parts, i + 1, v)
                     ELSE IF i + 1 = Len(parts) THEN old ELSE Thrown
          IN IF sub.t = "throw" THEN Thrown ELSE Obj(SetProp(cur.v, part, sub))

RECURSIVE UnflattenFrom(_, _, _)
UnflattenFrom(flat, i, root) ==
  IF i > Len(flat) \/ root.t = "throw" THEN root
  ELSE UnflattenFrom(flat, i + 1, InsertAt(root, SplitDots(flat[i].k), 1, flat[i].n))
unflattenJson(flat) == UnflattenFrom(flat, 1, Obj(<<>>))

\* ----------------------------------------------------------- placeholders
IsBrace(c) == c = "{" \/ c = "}"
\* end of the longest run of non-brace characters starting at i (i - 1 when empty)
RECURSIVE RunEnd(_, _)
RunEnd(s, i) == IF i <= Len(s) /\ ~IsBrace(s[i]) THEN RunEnd(s, i + 1) ELSE i - 1

\* the exec loop of PLACEHOLDER_REGEX = /\{([^{}]+)\}/g from index i
RECURSIVE ExecFrom(_, _, _)
ExecFromAllowEmpty(s, i, set) ==
  IF i > Len(s) THEN set
  ELSE IF s[i] = "{"
     THEN LET e == RunEnd(s, i + 1)
          IN IF e + 1 <= Len(s) /\ s[e + 1] = "}"
             THEN ExecFrom(s, e + 2, set \cup {SubSeq(s, i + 1, e)})
             ELSE ExecFrom(s, i + 1, set)
  ELSE ExecFrom(s, i + 1, set)
ExecFrom(s, i, set) ==
  IF i > Len(s) THEN set
  ELSE IF s[i] = "{"
     THEN LET e == RunEnd(s, i + 1)
          IN IF e >= i + 1 /\ e + 1 <= Len(s) /\ s[e + 1] = "}"
             THEN ExecFrom(s, e + 2, set \cup {SubSeq(s, i + 1, e)})
             ELSE ExecFrom(s, i + 1, set)
  ELSE ExecFrom(s, i + 1, set)
extractPlaceholders(n) == IF n.t # "str" THEN {} ELSE ExecFrom(n.v, 1, {})

\* ------------------------------------------------------------- validation
SelectKeysOfOther(from, other) == SelectSeq([i \in 1..Len(other) |-> other[i].k], LAMBDA k : ~HasOwn(from, k))
SelectKeys(from, other) == SelectSeq([i \in 1..Len(from) |-> from[i].k], LAMBDA k : ~HasOwn(other, k))
PlaceholderDiffs(sourceFlat, targetFlat) ==
  SelectSeq([i \in 1..Len(sourceFlat) |->
               LET key == sourceFlat[i].k
                   srcPH == extractPlaceholders(sourceFlat[i].n)
                   tgtPH == extractPlaceholders(Get(targetFlat, key))
               IN [key |-> key, missingPH |-> srcPH \ tgtPH, extraPH |-> tgtPH \ srcPH]],
            LAMBDA d : d.missingPH # {} \/ d.extraPH # {})
validateKeyAndPlaceholderParity(sourceFlat, targetFlat) ==
  LET missing == SelectKeys(sourceFlat, targetFlat)
      extra   == SelectKeys(targetFlat, sourceFlat)
      diffs   == PlaceholderDiffs(sourceFlat, targetFlat)
      errors  == (IF missing # <<>> THEN <<[type |-> "missing_keys", keys |-> missing, items |-> <<>>]>> ELSE <<>>)
              \o (IF extra # <<>> THEN <<[type |-> "extra_keys", keys |-> extra, items |-> <<>>]>> ELSE <<>>)
              \o (IF diffs # <<>> THEN <<[type |-> "placeholder_mismatch", keys |-> <<>>, items |-> diffs]>> ELSE <<>>)
  IN [ok |-> errors = <<>>, errors |-> errors]

\* ------------------------------------------------------------ environment
\* LOCALES.targets
Targets == << [folderCode |-> "ph", awsCode |-> "tl"], [folderCode |-> "vi", awsCode |-> "vi"] >>
ModuleNames == {"auth", "dash"}
\* en.json of a module directory
SourceOf(name) ==
  IF name = "auth"
  THEN Obj(<<Entry(<<"a">>, Obj(<<Entry(<<"b">>, Str(<<"H", "{", "x", "}">>))>>)),
             Entry(<<"c">>, Str(<<"Y">>))>>)
  ELSE Obj(<<Entry(<<"d">>, Str(<<"W">>))>>)
\* module directories the scan can find, in discovery order (the same name can
\* be found under the base directories i18n and 18n)
RECURSIVE SeqsUpTo(_, _)
SeqsUpTo(S, n) ==
  IF n = 0 THEN {<<>>}
  ELSE LET shorter == SeqsUpTo(S, n - 1)
       IN shorter \cup {Append(q, e) : q \in {r \in shorter : Len(r) = n - 1}, e \in S}
ModuleLists == {l \in SeqsUpTo(ModuleNames, MaxModules) : l = <<>> \/ l[1] = "auth"}
\* what translateText can answer
TargetTexts == {<<"Z">>, <<"{", "x", "}">>}
\* JobStatus values a poll can observe, and the Message of a failed job ("" = none)
Statuses == {"PENDING", "RUNNING", "COMPLETED", "FAILED", "STOPPED"}
Messages == {"", "quota"}

Null == [t |-> "null", v |-> <<>>]
NoErr == [at |-> "none", name |-> "", status |-> "", reason |-> ""]
Ev(flag, action, critical) == [flag |-> flag, action |-> action, critical |-> critical, data |-> <<>>]

VARIABLES
  forceSync, roleArn,       \* runner configuration (constructor)
  baseDirs, fsModules,      \* the file system: a base directory exists, its modules
  pc,                       \* position of the run
  modules, totalPairs, completedPairs, modIdx, tgtIdx,
  flatSource, lines, translatedFlat, nested,   \* locals of translateModuleLocale
  observed, sleeps,         \* answers polled by waitForBatchCompletion, sleeps taken
  hasLogger,                \* its logger argument has a writeLog function
  out, syncCalls, batchErr,
  inputStaged, outputObjs,  \* the pair's objects in the staging store
  files,                    \* output files: path -> pair that wrote it, content
  log,                      \* events since the current pair began
  started, results,         \* history: pairs begun, outcome reported for each
  ticks,                    \* history: <<completed, total, percent>> of every progress event
  runError,                 \* what generateBulkTranslations rejected with, "none" so far
  inputKey, outputPrefix,   \* locals of translateModuleLocale: where the pair stages
  fnIn, fnOut               \* a helper called on its own: its arguments, its result

cfgVars   == <<forceSync, roleArn, baseDirs, fsModules>>
loopVars  == <<modules, totalPairs, modIdx, tgtIdx>>
localVars == <<flatSource, lines, translatedFlat, nested>>
pollVars  == <<observed, sleeps, hasLogger>>
callVars  == <<out, syncCalls, batchErr>>
storeVars == <<inputStaged, outputObjs>>
keyVars   == <<inputKey, outputPrefix>>
fnVars    == <<fnIn, fnOut>>
vars == <<cfgVars, pc, loopVars, completedPairs, localVars, pollVars, callVars,
          storeVars, files, log, started, results, ticks, runError, keyVars, fnVars>>

Init ==
  /\ forceSync \in BOOLEAN /\ roleArn \in BOOLEAN
  /\ baseDirs \in BOOLEAN
  /\ fsModules \in (IF baseDirs THEN ModuleLists ELSE {<<>>})
  /\ pc = "start"
  /\ modules = <<>> /\ totalPairs = 0 /\ completedPairs = 0 /\ modIdx = 1 /\ tgtIdx = 1
  /\ flatSource = <<>> /\ lines = <<>> /\ translatedFlat = Null /\ nested = Null
  /\ observed = <<>> /\ sleeps = 0 /\ hasLogger = TRUE
  /\ out = <<>> /\ syncCalls = <<>> /\ batchErr = NoErr
  /\ inputStaged = FALSE /\ outputObjs = FALSE
  /\ files = {}
  /\ log = <<Ev("tr_runner_start", "init", FALSE)>>
  /\ started = <<>> /\ results = <<>>
  /\ ticks = <<>> /\ runError = "none"
  /\ inputKey = <<>> /\ outputPrefix = <<>>
  /\ fnIn = <<>> /\ fnOut = <<>>

\* ---------------------------------------------------------------- helpers
\* _progressTick: Math.round((completed / total) * 100), 0 when total is 0
PercentEmptyIsDone(completed, total) ==
  IF total > 0 THEN (200 * completed + total) \div (2 * total) ELSE 100
Percent(completed, total) == IF total > 0 THEN (200 * completed + total) \div (2 * total) ELSE 0
\* _progressTick: one tr_progress event with completed, total and percent
ProgressEvBeforeIncrement(completed, total) ==
  [flag |-> "tr_progress", action |-> "global", critical |-> FALSE,
   data |-> <<completed, total, Percent(IF completed > 0 THEN completed - 1 ELSE 0, total)>>]
ProgressEv(completed, total) ==
  [flag |-> "tr_progress", action |-> "global", critical |-> FALSE,
   data |-> <<completed, total, Percent(completed, total)>>]

\* this.totalPairs = modules.length * this.targets.length
TotalPairsModulesOnly(nModules, nTargets) == nModules
TotalPairs(nModules, nTargets) == nModules * nTargets

\* if (!baseDirs.length) throw new Error(`No i18n/18n base directory found`)
ScanThrowsOnNoModules(dirsFound, nModules) == ~dirsFound \/ nModules = 0
ScanThrows(dirsFound, nModules) == ~dirsFound

\* if (!this.forceSync && this.roleArn)
BatchEnabledIgnoringRole(fs, role) == ~fs
BatchEnabled(fs, role) == ~fs /\ role

\* finally { this.completedPairs += 1 }
FinallyWithoutIncrement(completed, ok) == completed
FinallyOnSuccessOnly(completed, ok) == IF ok THEN completed + 1 ELSE completed
Finally(completed, ok) == completed + 1

\* catch (e) { ... keep going }: where the run goes after a pair has thrown
PcAfterRethrow == "fatal"
PcAfterCatch == "begin"

\* the for loops over modules and this.targets
NextModSkipsTargets == modIdx + 1
NextMod == IF tgtIdx < Len(Targets) THEN modIdx ELSE modIdx + 1
NextTgtNoReset == IF tgtIdx < Len(Targets) THEN tgtIdx + 1 ELSE tgtIdx
NextTgt == IF tgtIdx < Len(Targets) THEN tgtIdx + 1 ELSE 1
CurModule == modules[modIdx]
CurTarget == Targets[tgtIdx]
\* _localOut(jobDir, moduleName, targetFolder)
CurPathByAwsCode == <<CurModule, CurTarget.awsCode>>
CurPath == <<CurModule, CurTarget.folderCode>>
\* _s3InputKey: inPrefix / tsFolder / moduleName / localeCode / <uid>.jsonl
Uids == {"k1", "k2"}
S3InputKey(moduleName, localeCode, uid) == <<"input", "ts", moduleName, localeCode, uid>>
\* _s3OutputPrefix: outPrefix / tsFolder / moduleName / localeCode /
S3OutputPrefix(moduleName, localeCode) == <<"output", "ts", moduleName, localeCode>>

\* the pair stays in translateModuleLocale
StaySkipsWrite(lg, nextpc) ==
  /\ log' = lg /\ pc' = IF nextpc = "write" THEN "cleanup" ELSE nextpc
  /\ UNCHANGED <<completedPairs, results, modIdx, tgtIdx, ticks, runError>>
StaySkipsValidate(lg, nextpc) ==
  /\ log' = lg /\ pc' = IF nextpc = "validate" THEN "write" ELSE nextpc
  /\ UNCHANGED <<completedPairs, results, modIdx, tgtIdx, ticks, runError>>
Stay(lg, nextpc) ==
  /\ log' = lg /\ pc' = nextpc
  /\ UNCHANGED <<completedPairs, results, modIdx, tgtIdx, ticks, runError>>
\* translateModuleLocale returned (ok) or threw: try / catch / finally of the loop body
EndPairCatchSilent(lg, ok) ==
  LET done == Finally(completedPairs, ok) IN
  /\ completedPairs' = done
  /\ log' = lg \o (IF ok THEN <<Ev("tr_runner_end", "module_locale_end", FALSE)>> ELSE <<>>)
              \o <<ProgressEv(done, totalPairs)>>
  /\ ticks' = Append(ticks, ProgressEv(done, totalPairs).data)
  /\ results' = Append(results, IF ok THEN "end" ELSE "error")
  /\ UNCHANGED runError
  /\ modIdx' = NextMod /\ tgtIdx' = NextTgt
  /\ pc' = IF ok THEN "begin" ELSE PcAfterCatch
EndPairEndAfterCatch(lg, ok) ==
  LET done == Finally(completedPairs, ok) IN
  /\ completedPairs' = done
  /\ log' = lg \o (IF ok THEN <<>> ELSE <<Ev("tr_error", "module_locale_error", TRUE)>>)
              \o <<Ev("tr_runner_end", "module_locale_end", FALSE), ProgressEv(done, totalPairs)>>
  /\ ticks' = Append(ticks, ProgressEv(done, totalPairs).data)
  /\ results' = Append(results, IF ok THEN "end" ELSE "error")
  /\ UNCHANGED runError
  /\ modIdx' = NextMod /\ tgtIdx' = NextTgt
  /\ pc' = IF ok THEN "begin" ELSE PcAfterCatch
EndPair(lg, ok) ==
  LET done == Finally(completedPairs, ok) IN
  /\ completedPairs' = done
  /\ log' = lg \o << IF ok THEN Ev("tr_runner_end", "module_locale_end", FALSE)
                          ELSE Ev("tr_error", "module_locale_error", TRUE),
                     ProgressEv(done, totalPairs) >>
  /\ ticks' = Append(ticks, ProgressEv(done, totalPairs).data)
  /\ results' = Append(results, IF ok THEN "end" ELSE "error")
  /\ UNCHANGED runError
  /\ modIdx' = NextMod /\ tgtIdx' = NextTgt
  /\ pc' = IF ok THEN "begin" ELSE PcAfterCatch

\* catch (e) of the batch attempt: logged as critical, then the per-string path
BatchFail(lg) == Append(lg, Ev("tr_error", "batch_fail", TRUE))

\* ------------------------------------------------------------ run prologue
EnsureJobDir ==
  /\ pc = "start"
  /\ \E ok \in BOOLEAN :
       /\ log' = log \o <<Ev("tr_job_dir_start", "mkdir", FALSE)>>
                     \o (IF ok THEN <<Ev("tr_job_dir_end", "mkdir", FALSE)>> ELSE <<>>)
       /\ pc' = IF ok THEN "scan" ELSE "fatal"
       /\ runError' = IF ok THEN "none" ELSE "mkdir"
  /\ UNCHANGED <<cfgVars, keyVars, fnVars, loopVars, completedPairs, localVars, pollVars, callVars,
                 storeVars, files, started, results, ticks>>

\* scanAllModules, then totalPairs / completedPairs / first progress tick
ScanAllModules ==
  /\ pc = "scan"
  /\ \E readdirOk \in BOOLEAN :
       IF ScanThrows(baseDirs, Len(fsModules)) \/ ~readdirOk
       THEN /\ pc' = "fatal"
            /\ runError' = IF ScanThrows(baseDirs, Len(fsModules)) THEN "no_base_dir" ELSE "readdir"
            /\ log' = Append(log, Ev("tr_scan_start", "scan", FALSE))
            /\ UNCHANGED <<modules, totalPairs, completedPairs, ticks>>
       ELSE LET total == TotalPairs(Len(fsModules), Len(Targets)) IN
            /\ modules' = fsModules
            /\ totalPairs' = total
            /\ completedPairs' = 0
            /\ ticks' = Append(ticks, ProgressEv(0, total).data)
            /\ log' = log \o <<Ev("tr_scan_start", "scan", FALSE), Ev("tr_scan_found", "scan", FALSE),
                               Ev("tr_scan_end", "scan", FALSE),
                               ProgressEv(0, total),
                               Ev("tr_runner_start", "announce", FALSE)>>
            /\ pc' = "begin"
            /\ UNCHANGED runError
  /\ UNCHANGED <<cfgVars, keyVars, fnVars, modIdx, tgtIdx, localVars, pollVars, callVars,
                 storeVars, files, started, results>>

\* ------------------------------------------------------------- pair stages
PairBegin ==
  /\ pc = "begin" /\ modIdx <= Len(modules)
  /\ log' = <<Ev("tr_runner_start", "module_locale_begin", FALSE)>>
  /\ started' = Append(started, <<modIdx, tgtIdx>>)
  /\ flatSource' = <<>> /\ lines' = <<>> /\ translatedFlat' = Null /\ nested' = Null
  /\ observed' = <<>> /\ sleeps' = 0 /\ UNCHANGED hasLogger
  /\ out' = <<>> /\ syncCalls' = <<>> /\ batchErr' = NoErr
  /\ inputStaged' = FALSE /\ inputKey' = <<>> /\ outputPrefix' = <<>>
  \* objects another writer left under the pair's output prefix, if any
  /\ outputObjs' \in BOOLEAN
  /\ pc' = "build"
  /\ UNCHANGED <<cfgVars, fnVars, loopVars, completedPairs, files, results, ticks, runError>>

\* buildPayload: readJsonSafe, flattenJson, lines = Object.entries(flat)
BuildPayload ==
  /\ pc = "build"
  /\ \E readOk \in BOOLEAN :
       LET lg == Append(log, Ev("tr_payload_build_start", "flatten", FALSE)) IN
       IF readOk
       THEN LET flat == flattenJson(SourceOf(CurModule), <<>>, <<>>) IN
            /\ flatSource' = flat
            /\ lines' = [i \in 1..Len(flat) |-> [key |-> flat[i].k, text |-> flat[i].n]]
            /\ Stay(Append(lg, Ev("tr_payload_build_end", "flatten", FALSE)), "upload")
       ELSE /\ UNCHANGED <<flatSource, lines>>
            /\ EndPair(lg, FALSE)
  /\ UNCHANGED <<cfgVars, keyVars, fnVars, modules, totalPairs, translatedFlat, nested, pollVars, callVars,
                 storeVars, files, started>>

\* putJsonl of the input, then the choice of the strategy
StageInput ==
  /\ pc = "upload"
  /\ \E uploadOk \in BOOLEAN, uid \in Uids :
       LET lg == Append(log, Ev("tr_s3_upload_start", "s3_put", FALSE)) IN
       /\ inputKey' = S3InputKey(CurModule, CurTarget.folderCode, uid)
       /\ IF uploadOk
          THEN /\ inputStaged' = TRUE
               /\ outputPrefix' = S3OutputPrefix(CurModule, CurTarget.folderCode)
               /\ Stay(Append(lg, Ev("tr_s3_upload_end", "s3_put", FALSE)),
                       IF BatchEnabled(forceSync, roleArn) THEN "batch_start" ELSE "sync")
          ELSE /\ UNCHANGED <<inputStaged, outputPrefix>>
               /\ EndPair(lg, FALSE)
  /\ UNCHANGED <<cfgVars, fnVars, modules, totalPairs, localVars, pollVars, callVars,
                 outputObjs, files, started>>

\* The batch attempt (try block).  Its first statement is
\*   const { jobId, jobName } = await this._step({ ..., data: { ..., jobName, ... }, fn: ... })
\* whose argument reads jobName, the const this very statement declares, before
\* it is initialized: evaluating the argument throws a ReferenceError, before
\* _step logs anything and before startBatch is called.
BatchStartStep == "ReferenceError"

TryBatch ==
  /\ pc = "batch_start"
  /\ BatchStartStep = "ReferenceError"
  /\ batchErr' = [at |-> "batch_start", name |-> BatchStartStep, status |-> "", reason |-> ""]
  /\ Stay(BatchFail(log), "sync")
  /\ UNCHANGED <<cfgVars, keyVars, fnVars, modules, totalPairs, localVars, pollVars, out, syncCalls,
                 storeVars, files, started>>

\* translatedFlat = {}; for (const r of out) translatedFlat[r.key] = r.text
RECURSIVE FlatFromOutKeyedByText(_, _, _)
FlatFromOutKeyedByText(ret, i, acc) ==
  IF i > Len(ret) THEN acc
  ELSE FlatFromOutKeyedByText(ret, i + 1, SetProp(acc, ret[i].text.v, ret[i].text))
RECURSIVE FlatFromOut(_, _, _)
FlatFromOut(ret, i, acc) ==
  IF i > Len(ret) THEN acc ELSE FlatFromOut(ret, i + 1, SetProp(acc, ret[i].key, ret[i].text))
SyncFlatFromSecond(ret) == Obj(FlatFromOut(ret, 2, <<>>))
SyncFlat(ret) == Obj(FlatFromOut(ret, 1, <<>>))

\* the source line the fallback loop translates as its n-th call
SyncLineReversed(ls, n) == ls[Len(ls) + 1 - n]
SyncLine(ls, n) == ls[n]

\* if (!translatedFlat): the per-string step starts
SyncStart ==
  /\ pc = "sync" /\ translatedFlat = Null
  /\ LET lg == Append(log, Ev("tr_sync_start", "sync_translate", FALSE)) IN
     IF Len(lines) = 0
     THEN /\ translatedFlat' = SyncFlat(<<>>)
          /\ Stay(Append(lg, Ev("tr_sync_end", "sync_translate", FALSE)), "convert")
     ELSE /\ UNCHANGED translatedFlat
          /\ Stay(lg, "sync_call")
  /\ UNCHANGED <<cfgVars, keyVars, fnVars, modules, totalPairs, flatSource, lines, nested, pollVars, callVars,
                 storeVars, files, started>>

\* one iteration of for (const { key, text } of lines): await translateText(text, targetAws)
SyncTranslateOne ==
  /\ pc = "sync_call" /\ Len(out) < Len(lines)
  /\ LET line == SyncLine(lines, Len(out) + 1)
         call == [text |-> line.text, lang |-> CurTarget.awsCode] IN
     /\ syncCalls' = Append(syncCalls, call)
     /\ \/ \E t \in TargetTexts :
             LET ret == Append(out, [key |-> line.key, text |-> Str(t)]) IN
             /\ out' = ret
             /\ IF Len(ret) = Len(lines)
                THEN /\ translatedFlat' = SyncFlat(ret)
                     /\ Stay(Append(log, Ev("tr_sync_end", "sync_translate", FALSE)), "convert")
                ELSE /\ UNCHANGED translatedFlat
                     /\ Stay(log, "sync_call")
        \/ /\ UNCHANGED <<out, translatedFlat>>
           /\ EndPair(log, FALSE)
  /\ UNCHANGED <<cfgVars, keyVars, fnVars, modules, totalPairs, flatSource, lines, nested, pollVars,
                 batchErr, storeVars, files, started>>

\* unflattenJson(translatedFlat)
Convert ==
  /\ pc = "convert"
  /\ LET lg == Append(log, Ev("tr_convert_start", "unflatten", FALSE))
         tree == unflattenJson(translatedFlat.v) IN
     IF tree.t = "throw"
     THEN UNCHANGED nested /\ EndPair(lg, FALSE)
     ELSE nested' = tree /\ Stay(Append(lg, Ev("tr_convert_end", "unflatten", FALSE)), "validate")
  /\ UNCHANGED <<cfgVars, keyVars, fnVars, modules, totalPairs, flatSource, lines, translatedFlat, pollVars, callVars,
                 storeVars, files, started>>

\* validateKeyAndPlaceholderParity, the validate step and if (!ok) throw
Validate ==
  /\ pc = "validate"
  /\ LET res == validateKeyAndPlaceholderParity(flatSource, translatedFlat.v)
         lg == Append(log, Ev("tr_validate_start", "validate", FALSE)) IN
     IF res.ok
     THEN Stay(Append(lg, Ev("tr_validate_pass", "validate", FALSE)), "write")
     ELSE EndPair(lg \o <<Ev("tr_validate_fail", "validate", FALSE),
                          Ev("tr_error", "validate_fail", TRUE)>>, FALSE)
  /\ UNCHANGED <<cfgVars, keyVars, fnVars, modules, totalPairs, localVars, pollVars, callVars,
                 storeVars, files, started>>

\* writeJsonPretty(_localOut(jobDir, moduleName, targetFolder), nested)
WriteFile ==
  /\ pc = "write"
  /\ \E writeOk \in BOOLEAN :
       LET lg == Append(log, Ev("tr_write_start", "write_file", FALSE)) IN
       IF writeOk
       THEN /\ files' = {f \in files : f.path # CurPath}
                          \cup {[path |-> CurPath, by |-> Len(started), content |-> nested]}
            /\ Stay(Append(lg, Ev("tr_write_end", "write_file", FALSE)), "cleanup")
       ELSE /\ UNCHANGED files
            /\ EndPair(lg, FALSE)
  /\ UNCHANGED <<cfgVars, keyVars, fnVars, modules, totalPairs, localVars, pollVars, callVars,
                 storeVars, started>>

\* cleanup step, first half: AwsS3.deleteFile(bucket, inputKey)
CleanupInput ==
  /\ pc = "cleanup"
  /\ \E deleteOk \in BOOLEAN :
       LET lg == Append(log, Ev("tr_cleanup_start", "s3_cleanup", FALSE)) IN
       IF deleteOk
       THEN inputStaged' = FALSE /\ Stay(lg, "cleanup_outputs")
       ELSE UNCHANGED inputStaged /\ EndPair(lg, FALSE)
  /\ UNCHANGED <<cfgVars, keyVars, fnVars, modules, totalPairs, localVars, pollVars, callVars,
                 outputObjs, files, started>>

\* cleanup step, second half: listFiles(outputPrefix), deleteFiles when any;
\* then return outPath and the module_locale_end of the caller
CleanupOutputs ==
  /\ pc = "cleanup_outputs"
  /\ \E listOk \in BOOLEAN, deleteOk \in BOOLEAN :
       /\ (~outputObjs \/ ~listOk) => deleteOk
       /\ IF listOk /\ deleteOk
          THEN outputObjs' = FALSE
               /\ EndPair(Append(log, Ev("tr_cleanup_end", "s3_cleanup", FALSE)), TRUE)
          ELSE UNCHANGED outputObjs /\ EndPair(log, FALSE)
  /\ UNCHANGED <<cfgVars, keyVars, fnVars, modules, totalPairs, localVars, pollVars, callVars,
                 inputStaged, files, started>>

\* after the loops: the done event and return jobDir
RunDone ==
  /\ pc = "begin" /\ modIdx > Len(modules)
  /\ log' = Append(log, Ev("tr_runner_end", "done", FALSE))
  /\ pc' = "done"
  /\ UNCHANGED <<cfgVars, keyVars, fnVars, loopVars, completedPairs, localVars, pollVars, callVars,
                 storeVars, files, started, results, ticks, runError>>

Next ==
  \/ EnsureJobDir \/ ScanAllModules \/ PairBegin \/ BuildPayload \/ StageInput
  \/ TryBatch \/ SyncStart \/ SyncTranslateOne \/ Convert \/ Validate
  \/ WriteFile \/ CleanupInput \/ CleanupOutputs \/ RunDone
Spec == Init /\ [][Next]_vars

\* ------------------------------------------------- waitForBatchCompletion
\* The method of the gateway object (runner.aws), called on its own: the runner
\* itself never reaches it, because TryBatch throws first.
Terminal == {"COMPLETED", "FAILED", "STOPPED"}
Answer(st, msg) == [st |-> st, msg |-> msg]
\* what a describeTextTranslationJob call can answer
Answers == {Answer(st, "") : st \in Statuses} \cup {Answer(st, "quota") : st \in {"FAILED", "STOPPED"}}

\* if (status === "COMPLETED") return; if (FAILED || STOPPED) throw; else sleep
PollDecisionStoppedGoesOn(status) ==
  IF status = "COMPLETED" THEN "return"
  ELSE IF status = "FAILED" THEN "throw" ELSE "sleep"
PollDecisionEager(status) ==
  IF status \in {"COMPLETED", "RUNNING"} THEN "return"
  ELSE IF status \in {"FAILED", "STOPPED"} THEN "throw" ELSE "sleep"
PollDecision(status) ==
  IF status = "COMPLETED" THEN "return"
  ELSE IF status \in {"FAILED", "STOPPED"} THEN "throw" ELSE "sleep"
\* details.TextTranslationJobProperties.Message || "unknown"
Reason(msg) == IF msg = "" THEN "unknown" ELSE msg
\* while (true)
WhileBounded(polls) == polls < 2
WhileTrue(polls) == TRUE

InitWait ==
  /\ forceSync = FALSE /\ roleArn = TRUE /\ baseDirs = FALSE /\ fsModules = <<>>
  /\ pc = "wait_idle"
  /\ modules = <<>> /\ totalPairs = 0 /\ completedPairs = 0 /\ modIdx = 1 /\ tgtIdx = 1
  /\ flatSource = <<>> /\ lines = <<>> /\ translatedFlat = Null /\ nested = Null
  /\ observed = <<>> /\ sleeps = 0 /\ hasLogger \in BOOLEAN
  /\ out = <<>> /\ syncCalls = <<>> /\ batchErr = NoErr
  /\ inputStaged = FALSE /\ outputObjs = FALSE
  /\ files = {}
  /\ log = <<>>
  /\ started = <<>> /\ results = <<>>
  /\ ticks = <<>> /\ runError = "none"
  /\ inputKey = <<>> /\ outputPrefix = <<>>
  /\ fnIn = <<>> /\ fnOut = <<>>

waitFrame == <<cfgVars, keyVars, fnVars, loopVars, completedPairs, localVars, hasLogger, out, syncCalls,
               storeVars, files, started, results, ticks, runError>>

\* a caller invokes waitForBatchCompletion({ jobId, logger })
WaitCall ==
  /\ pc = "wait_idle"
  /\ pc' = IF WhileTrue(0) THEN "poll" ELSE "wait_returned"
  /\ UNCHANGED <<waitFrame, observed, sleeps, batchErr, log>>

\* one describeTextTranslationJob call and the branch on its status
Poll ==
  /\ pc = "poll" /\ Len(observed) < MaxPolls
  /\ \/ /\ batchErr' = [at |-> "poll_call", name |-> "Error", status |-> "", reason |-> ""]
        /\ pc' = "wait_thrown"
        /\ UNCHANGED <<observed, log>>
     \/ \E a \in Answers :
          /\ observed' = Append(observed, a)
          /\ log' = IF hasLogger THEN Append(log, Ev("tr_batch_wait", "poll_status", FALSE)) ELSE log
          /\ pc' = CASE PollDecision(a.st) = "return" -> "wait_returned"
                     [] PollDecision(a.st) = "throw" -> "wait_thrown"
                     [] OTHER -> "sleep"
          /\ batchErr' = IF PollDecision(a.st) = "throw"
                         THEN [at |-> "wait", name |-> "BatchTranslateFailed",
                               status |-> a.st, reason |-> Reason(a.msg)]
                         ELSE batchErr
  /\ UNCHANGED <<waitFrame, sleeps>>

\* await new Promise((r) => setTimeout(r, pollMs)), then the loop condition
Sleep ==
  /\ pc = "sleep"
  /\ sleeps' = sleeps + 1
  /\ pc' = IF WhileTrue(Len(observed)) THEN "poll" ELSE "wait_returned"
  /\ UNCHANGED <<waitFrame, observed, batchErr, log>>

NextWait == WaitCall \/ Poll \/ Sleep
SpecWait == InitWait /\ [][NextWait]_vars

\* ================================================================= claims
LogHas(flag) == \E i \in 1..Len(log) : log[i].flag = flag
LogHasAction(action) == \E i \in 1..Len(log) : log[i].action = action
\* the pair begun last has ended: the locals and the log are those of that pair
PairEnded == started # <<>> /\ Len(results) = Len(started)
FileOfPair == \E f \in files : f.by = Len(started)
UploadRejected == LogHas("tr_s3_upload_start") /\ ~LogHas("tr_s3_upload_end")
WriteRejected == LogHas("tr_write_start") /\ ~LogHas("tr_write_end")
AllPairs == [i \in 1..(Len(modules) * Len(Targets)) |->
               <<((i - 1) \div Len(Targets)) + 1, ((i - 1) % Len(Targets)) + 1>>]

\* C1: whatever pairs fail (unreadable source, failed translate, failed
\* validation, failed write), the failure is caught in the loop body: the run
\* never ends in error once pairs are being processed, a failed pair leaves the
\* run at the head of the loop, and when the run returns every module x locale
\* pair has been started, in order.
C1_PairFailuresNeverStopTheRun ==
  /\ started # <<>> => pc # "fatal"
  /\ PairEnded /\ Last(results) = "error" => pc \in {"begin", "done"}
  /\ pc = "done" => started = AllPairs /\ Len(results) = Len(AllPairs)
C1_Witness ==
  pc = "done" /\ Len(results) >= 2 /\ results[1] = "error" /\ Last(results) = "end"

\* C2: completedPairs is 0..totalPairs, equals the number of pairs whose
\* processing has ended (with either outcome), and equals totalPairs when the
\* run returns.
C2_CompletedCountsEndedPairs ==
  /\ completedPairs >= 0 /\ completedPairs <= totalPairs
  /\ completedPairs = Len(results)
  /\ pc = "done" => completedPairs = totalPairs
C2_Witness ==
  pc = "done" /\ completedPairs = totalPairs /\ totalPairs >= 2
  /\ "error" \in Range(results) /\ "end" \in Range(results)

\* C3: a pair whose batch attempt failed and whose fallback and validation then
\* succeeded has its file written and is reported as completed (a write that the
\* file system rejects is left aside: it is the write failure of C1).
C3_BatchFailureRecoveredByFallback ==
  (PairEnded /\ batchErr.at # "none" /\ LogHas("tr_sync_end")
     /\ LogHas("tr_validate_pass") /\ ~WriteRejected)
  => (FileOfPair /\ Last(results) = "end")

\* C4: a rejected upload of the input records triggers the per-string fallback
\* for the same pair.
C4_StagingErrorTriggersFallback ==
  (PairEnded /\ UploadRejected) => LogHas("tr_sync_start")

\* C5: a pair whose validation failed is reported failed, has no file, and its
\* staged objects have been cleaned up.
C5_ValidationFailureStillCleansUp ==
  (PairEnded /\ LogHas("tr_validate_fail"))
  => (Last(results) = "error" /\ ~FileOfPair /\ LogHas("tr_cleanup_start") /\ ~inputStaged)

\* C6: a pair whose file was persisted is reported as completed
\* (module_locale_end), whatever the delete and list calls of the cleanup do.
C6_CleanupFailureNeverRaised ==
  (PairEnded /\ FileOfPair) => (Last(results) = "end" /\ LogHasAction("module_locale_end"))

\* C7: when fallback is forced or no roleArn is configured, nothing of the batch
\* strategy happens in any pair: no batch step, no poll, no batch error, and no
\* batch_fail (critical) event.
C7_BatchOnlyWhenEnabled ==
  (forceSync \/ ~roleArn) =>
     /\ batchErr.at = "none" /\ observed = <<>>
     /\ \A i \in 1..Len(log) :
          /\ log[i].action \notin {"batch_fail", "batch_start", "batch_wait", "batch_fetch", "poll_status"}
          /\ log[i].critical => log[i].action \in {"module_locale_error", "validate_fail"}
C7_Witness ==
  ~forceSync /\ ~roleArn /\ PairEnded /\ Last(results) = "end" /\ LogHas("tr_sync_end")

\* C8: the fallback calls translateText once per line, in the order of lines,
\* with the line's text; until it has finished translatedFlat is still null, and
\* when it has finished translatedFlat holds, key by key in that order, exactly
\* the texts those calls answered.
C8_FallbackInOrderNoCarryOver ==
  /\ Len(syncCalls) <= Len(lines)
  /\ \A i \in 1..Len(syncCalls) : syncCalls[i].text = lines[i].text
  /\ \A i \in 1..Len(out) : out[i].key = lines[i].key
  /\ (LogHas("tr_sync_start") /\ ~LogHas("tr_sync_end")) => translatedFlat = Null
  /\ LogHas("tr_sync_end") =>
       /\ Len(syncCalls) = Len(lines) /\ Len(out) = Len(lines)
       /\ translatedFlat = Obj([i \in 1..Len(lines) |-> Entry(lines[i].key, out[i].text)])
C8_Witness ==
  LogHas("tr_sync_end") /\ Len(lines) = 2 /\ batchErr.at # "none" /\ Len(syncCalls) = 2

\* C9: waitForBatchCompletion returns on the first poll that answers COMPLETED
\* and on no earlier one; on the first poll that answers FAILED or STOPPED it
\* throws BatchTranslateFailed with that status and the remote Message; after any
\* other status it sleeps and polls again.
C9_ReturnsOnFirstCompleted ==
  LET n == Len(observed) IN
  /\ \A i \in 1..(n - 1) : observed[i].st \notin Terminal
  /\ pc = "wait_returned" <=> (n >= 1 /\ Last(observed).st = "COMPLETED")
  /\ (n >= 1 /\ Last(observed).st \in {"FAILED", "STOPPED"}) =>
       /\ pc = "wait_thrown" /\ batchErr.name = "BatchTranslateFailed"
       /\ batchErr.status = Last(observed).st
       /\ Last(observed).msg # "" => batchErr.reason = Last(observed).msg
  /\ pc = "wait_thrown" =>
       \/ batchErr.at = "poll_call"
       \/ n >= 1 /\ Last(observed).st \in {"FAILED", "STOPPED"}
  /\ (n >= 1 /\ Last(observed).st \notin Terminal /\ batchErr.at # "poll_call") =>
       /\ pc \in {"sleep", "poll"}
       /\ sleeps = IF pc = "poll" THEN n ELSE n - 1
C9_Witness ==
  /\ pc = "wait_returned"
  /\ [i \in 1..Len(observed) |-> observed[i].st] = <<"PENDING", "RUNNING", "COMPLETED">>

SpecFair == Spec /\ WF_vars(Next)

\* the run is over: it rejected before any pair, or it returned with every pair
\* of the cross product begun and ended
RunOver ==
  \/ pc = "fatal" /\ started = <<>>
  \/ pc = "done" /\ Len(started) = Len(modules) * Len(Targets)
                 /\ Len(results) = Len(modules) * Len(Targets)

\* C11: when every call the run awaits returns, the run terminates, and it
\* terminates with every pair processed (or rejected before the first pair).
C11_RunTerminates == <>RunOver
C11_Witness ==
  RunOver /\ pc = "done" /\ Len(results) > Len(Targets) /\ batchErr.at # "none"

\* C12: totalPairs is modules x targets by the time the first pair starts, and
\* neither it nor the module list changes once a pair has started.
C12_TotalPairsFixedBeforeFirstPair ==
  [][ /\ (started' # started => totalPairs = Len(modules) * Len(Targets))
      /\ (started # <<>> => totalPairs' = totalPairs /\ modules' = modules) ]_vars
C12_Witness ==
  /\ pc = "done" /\ totalPairs = Len(modules) * Len(Targets)
  /\ totalPairs > Len(Targets) /\ Len(results) = totalPairs

\* C13: the pairs begun so far are the first pairs of the cross product, modules
\* in discovery order (outer) and targets in configured order (inner), each
\* once; when the run returns they are the whole cross product.
C13_EveryPairOnceInOrder ==
  /\ started # <<>> => modules = fsModules
  /\ Len(started) <= Len(AllPairs)
  /\ \A i \in 1..Len(started) : started[i] = AllPairs[i]
  /\ pc = "done" => Len(started) = Len(AllPairs)
C13_Witness ==
  /\ pc = "done" /\ Len(started) > Len(Targets) /\ started = AllPairs
  /\ results[Len(Targets)] = "error"

C15_NoBaseDirFatalNoModulesEmptyRun ==
  /\ ~baseDirs => started = <<>> /\ pc \in {"start", "scan", "fatal"}
  /\ ~baseDirs /\ LogHas("tr_scan_start") => pc = "fatal" /\ runError = "no_base_dir"
  /\ baseDirs /\ fsModules = <<>> /\ LogHas("tr_scan_start") /\ runError # "readdir"
       => /\ pc \in {"begin", "done"} /\ runError = "none"
          /\ totalPairs = 0 /\ completedPairs = 0 /\ started = <<>>
          /\ ticks = << <<0, 0, 0>> >>
C15_Witness ==
  /\ baseDirs /\ fsModules = <<>> /\ pc = "done"
  /\ totalPairs = 0 /\ completedPairs = 0 /\ Last(ticks)[3] = 0

\* |x|
Abs(x) == IF x < 0 THEN 0 - x ELSE x
\* p is an integer nearest to 100 * c / t
NearestPercent(p, c, t) == 2 * Abs(100 * c - p * t) <= t
ProgressInLog == {i \in 1..Len(log) : log[i].flag = "tr_progress"}

Succeeded == {i \in 1..Len(results) : results[i] = "end"}
Failed == {i \in 1..Len(results) : results[i] = "error"}

\* C17: when the run returns, the pairs with an output file are exactly the
\* pairs reported as succeeded, and the number of files is the number of pairs
\* minus the number of pairs reported as failed.
C17_FilesExactlyForSucceededPairs ==
  pc = "done" =>
    /\ \A i \in 1..Len(results) : (i \in Succeeded) <=> (\E f \in files : f.by = i)
    /\ Cardinality(files) = Len(results) - Cardinality(Failed)

\* C18: no step replaces a file that another pair of the run has written.
C18_NoPairOverwritesAnother ==
  [][ \A f \in files : \E g \in files' : g.path = f.path /\ g.by = f.by ]_vars

PairStages == {"build", "upload", "batch_start", "sync", "sync_call", "convert",
               "validate", "write", "cleanup", "cleanup_outputs"}

\* C19: at most one pair is in progress; a pair begins only when every pair
\* begun before it has ended and has been counted; the counter and the files
\* change only while a pair is in progress, the files only for that pair.
C19_OnePairAtATime ==
  [][ /\ Len(started) - Len(results) \in {0, 1}
      /\ (Len(started) = Len(results) + 1) <=> (pc \in PairStages)
      /\ started' # started =>
           Len(results) = Len(started) /\ completedPairs = Len(started)
      /\ completedPairs' # completedPairs \/ files' # files =>
           /\ pc \in PairStages
           /\ \A f \in files' \ files : f.by = Len(started) ]_vars
C19_Witness ==
  /\ pc = "cleanup" /\ Len(started) > Len(Targets) /\ Len(results) = Len(started) - 1
  /\ \E f \in files : f.by = Len(started)

StageStarts == <<"tr_payload_build_start", "tr_s3_upload_start", "tr_sync_start",
                 "tr_convert_start", "tr_validate_start", "tr_write_start", "tr_cleanup_start">>
StageEnds == <<"tr_payload_build_end", "tr_s3_upload_end", "tr_sync_end",
               "tr_convert_end", "tr_validate_pass", "tr_write_end", "tr_cleanup_end">>
Positions(flag) == {i \in 1..Len(log) : log[i].flag = flag}
\* flag a is logged, once, and before every flag b
Before(a, b) ==
  Cardinality(Positions(a)) = 1 /\ \A i \in Positions(a), j \in Positions(b) : i < j
StageFailed(k) == LogHas(StageStarts[k]) /\ ~LogHas(StageEnds[k])

\* C20: in the events of a pair, a stage's start follows the end of the stage
\* before it (build, upload, translate, convert, validate, write, cleanup), so
\* no stage starts unless all earlier ones succeeded; a pair with a failed stage
\* starts no later stage and is reported as failed, and the run goes on.
C20_StagesInOrder ==
  started # <<>> =>
    /\ \A k \in 1..Len(StageStarts) :
         /\ Cardinality(Positions(StageStarts[k])) <= 1
         /\ LogHas(StageEnds[k]) => Before(StageStarts[k], StageEnds[k])
         /\ k > 1 /\ LogHas(StageStarts[k]) => Before(StageEnds[k - 1], StageStarts[k])
    /\ \A k \in 1..Len(StageStarts) : StageFailed(k) /\ pc \notin PairStages =>
         /\ PairEnded /\ Last(results) = "error" /\ pc \in {"begin", "done"}
         /\ \A j \in (k + 1)..Len(StageStarts) : ~LogHas(StageStarts[j])
    /\ pc = "done" => Len(results) = Len(AllPairs)
C20_Witness ==
  /\ PairEnded /\ Len(results) >= 2 /\ results[1] = "error" /\ Last(results) = "end"
  /\ \A k \in 1..Len(StageEnds) : LogHas(StageEnds[k])
  /\ LogHasAction("batch_fail")

\* ------------------------------------------------------------- third group
\* the stage's start event is logged and its work is still going on
InStage(k) == \/ k = 3 /\ pc = "sync_call"
              \/ k = 7 /\ pc = "cleanup_outputs"
\* an event after the stage's start event: the stage's end event, or an error event
EventAfter(k) ==
  \E i \in Positions(StageStarts[k]) : \E j \in (i + 1)..Len(log) :
     \/ log[j].flag = StageEnds[k]
     \/ log[j].flag = "tr_error" /\ log[j].critical

MaxKeys == 2
MaxTextLen == 4

Num(n) == [t |-> "num", v |-> <<n>>]
Bool(b) == [t |-> "bool", v |-> <<b>>]
Leaves == {Str(<<"x">>), Num(1), Bool(TRUE)}
KeyNames == {<<"a">>, <<"b">>, <<"a", ".", "b">>, <<>>}
DistinctKeys(es) == \A i, j \in 1..Len(es) : es[i].k = es[j].k => i = j
\* the objects with at most n entries, keys in K, values in V
ObjsOver(K, V, n) ==
  {Obj(es) : es \in {q \in SeqsUpTo({Entry(k, v) : k \in K, v \in V}, n) : DistinctKeys(q)}}
\* trees of depth two: the values are leaves or objects with at most one leaf
Trees == ObjsOver(KeyNames, Leaves \cup ObjsOver(KeyNames, Leaves, 1), MaxKeys)
\* flat maps given to unflattenJson
FlatMaps == {o.v : o \in ObjsOver(KeyNames, {Str(<<"x">>), Str(<<"y">>)}, MaxKeys)}

helperFrame == <<cfgVars, loopVars, completedPairs, localVars, pollVars, callVars,
                 storeVars, files, log, started, results, ticks, runError, keyVars>>

InitFrame ==
  /\ forceSync = FALSE /\ roleArn = TRUE /\ baseDirs = FALSE /\ fsModules = <<>>
  /\ modules = <<>> /\ totalPairs = 0 /\ completedPairs = 0 /\ modIdx = 1 /\ tgtIdx = 1
  /\ flatSource = <<>> /\ lines = <<>> /\ translatedFlat = Null /\ nested = Null
  /\ observed = <<>> /\ sleeps = 0 /\ hasLogger = TRUE
  /\ out = <<>> /\ syncCalls = <<>> /\ batchErr = NoErr
  /\ inputStaged = FALSE /\ outputObjs = FALSE
  /\ files = {} /\ log = <<>>
  /\ started = <<>> /\ results = <<>>
  /\ ticks = <<>> /\ runError = "none"
  /\ inputKey = <<>> /\ outputPrefix = <<>>

\* unflattenJson(flattenJson(tree))
RoundTrip ==
  /\ pc = "call_roundtrip"
  /\ LET flat == flattenJson(fnIn, <<>>, <<>>) IN
     fnOut' = [flat |-> flat, tree |-> unflattenJson(flat)]
  /\ pc' = "returned_roundtrip"
  /\ UNCHANGED <<helperFrame, fnIn>>

\* unflattenJson(flat)
Unflatten ==
  /\ pc = "call_unflatten"
  /\ fnOut' = unflattenJson(fnIn)
  /\ pc' = "returned_unflatten"
  /\ UNCHANGED <<helperFrame, fnIn>>

\* sourceFlat and targetFlat given to validateKeyAndPlaceholderParity
PhValues == {Str(<<"x">>), Str(<<"{", "p", "}">>), Str(<<"{", "q", "}">>), Num(1)}
ValidatedMaps == {o.v : o \in ObjsOver({<<"a">>, <<"b">>}, PhValues, MaxKeys)}
ValidateCall ==
  /\ pc = "call_validate"
  /\ fnOut' = validateKeyAndPlaceholderParity(fnIn.sourceFlat, fnIn.targetFlat)
  /\ pc' = "returned_validate"
  /\ UNCHANGED <<helperFrame, fnIn>>

\* values given to extractPlaceholders
MaxPhLen == 6
PhTexts == SeqsUpTo({"{", "}", "p", "q"}, MaxPhLen)
NonStrings == {Num(1), Bool(TRUE), Undefined, Null, Obj(<<>>)}
Extract ==
  /\ pc = "call_extract"
  /\ fnOut' = extractPlaceholders(fnIn)
  /\ pc' = "returned_extract"
  /\ UNCHANGED <<helperFrame, fnIn>>

\* ------------------------------------------------------ fetchBatchResults
MaxListed == 2
\* /\.out$/.test(o.Key)
EndsWith(s, suffix) ==
  Len(s) >= Len(suffix) /\ SubSeq(s, Len(s) - Len(suffix) + 1, Len(s)) = suffix
IsOutKey(key) == EndsWith(key, <<".", "o", "u", "t">>)
\* (files || []).find(...) || (files || [])[0]: index of the candidate, 0 when none
Candidate(listing) ==
  IF \E i \in 1..Len(listing) : IsOutKey(listing[i].Key)
  THEN CHOOSE i \in 1..Len(listing) :
         IsOutKey(listing[i].Key) /\ \A j \in 1..(i - 1) : ~IsOutKey(listing[j].Key)
  ELSE IF Len(listing) > 0 THEN 1 ELSE 0

\* String.prototype.trim
IsSpace(c) == c \in {" ", "\n", "\r"}
RECURSIVE TrimLeft(_)
TrimLeft(s) == IF s # <<>> /\ IsSpace(s[1]) THEN TrimLeft(Tail(s)) ELSE s
RECURSIVE TrimRight(_)
TrimRight(s) == IF s # <<>> /\ IsSpace(s[Len(s)]) THEN TrimRight(SubSeq(s, 1, Len(s) - 1)) ELSE s
Trim(s) == TrimRight(TrimLeft(s))
\* text.split(/\r?\n/)
RECURSIVE SplitLinesFrom(_, _, _, _)
SplitLinesFrom(s, i, cur, acc) ==
  IF i > Len(s) THEN Append(acc, cur)
  ELSE IF s[i] = "\n" THEN SplitLinesFrom(s, i + 1, <<>>, Append(acc, cur))
  ELSE IF s[i] = "\r" /\ i < Len(s) /\ s[i + 1] = "\n"
       THEN SplitLinesFrom(s, i + 2, <<>>, Append(acc, cur))
  ELSE SplitLinesFrom(s, i + 1, Append(cur, s[i]), acc)
SplitLines(s) == SplitLinesFrom(s, 1, <<>>, <<>>)
\* JSON.parse of a line over the characters 1, x and white space: the line is
\* valid JSON exactly when it is a run of digits within white space
IsJsonText(line) == Trim(line) # <<>> /\ \A i \in 1..Len(Trim(line)) : Trim(line)[i] = "1"
TextRecord(line) == Obj(<<Entry(<<"t", "e", "x", "t">>, Str(line))>>)
\* try { return JSON.parse(line) } catch { return { text: line } }
ParseLine(line) == IF IsJsonText(line) THEN [t |-> "num", v |-> Trim(line)] ELSE TextRecord(line)
ParseLines(text) == LET ls == SplitLines(text) IN [i \in 1..Len(ls) |-> ParseLine(ls[i])]
\* text.trim().split(/\r?\n/).map(...)
ParseUntrimmed(text) == ParseLines(text)
ParseTrimmed(text) == ParseLines(Trim(text))

FileTexts == SeqsUpTo({"1", "x", " ", "\n", "\r"}, MaxTextLen)
FileKeys == {<<"r">>, <<"r", ".", "o", "u", "t">>, <<"s", ".", "o", "u", "t">>, <<"o", "u", "t">>}
Listed(key, text) == [Key |-> key, text |-> text]
Listings ==
  SeqsUpTo({Listed(k, t) : k \in FileKeys, t \in {<<"1">>, <<"x">>}}, MaxListed)
    \cup {<<Listed(<<"r", ".", "o", "u", "t">>, t)>> : t \in FileTexts}
NoFetch == [thrown |-> "", key |-> <<>>, records |-> <<>>]

\* fetchBatchResults({ outputS3Uri }) with the objects listed under the prefix
FetchBatchResults ==
  /\ pc = "call_fetch"
  /\ LET c == Candidate(fnIn) IN
     IF c = 0
     THEN fnOut' = [NoFetch EXCEPT !.thrown = "No batch outputs"]
     ELSE \E getOk \in BOOLEAN :
            fnOut' = IF getOk
                     THEN [thrown |-> "", key |-> fnIn[c].Key, records |-> ParseTrimmed(fnIn[c].text)]
                     ELSE [NoFetch EXCEPT !.thrown = "getFile", !.key = fnIn[c].Key]
  /\ pc' = "returned_fetch"
  /\ UNCHANGED <<helperFrame, fnIn>>

\* ------------------------------------------- staging keys of two pairs
\* the module name and locale code a pair stages under
PairNames == {[moduleName |-> m, localeCode |-> Targets[t].folderCode] :
                m \in ModuleNames, t \in 1..Len(Targets)}
\* _s3InputKey and _s3OutputPrefix as translateModuleLocale calls them for a
\* pair, with the uid that Math.random gave this call
StagingOf(names, uid) ==
  [uid |-> uid,
   inputKey |-> S3InputKey(names.moduleName, names.localeCode, uid),
   outputPrefix |-> S3OutputPrefix(names.moduleName, names.localeCode)]
\* two pairs staged under one tsFolder: two pairs of a run, or of two runners
\* constructed within the same second
StagingKeys ==
  /\ pc = "call_keys"
  /\ \E u1 \in Uids, u2 \in Uids :
       fnOut' = <<StagingOf(fnIn[1], u1), StagingOf(fnIn[2], u2)>>
  /\ pc' = "returned_keys"
  /\ UNCHANGED <<helperFrame, fnIn>>

\* ------------------------------------------------ flattenJson called twice
\* the objects one call flattenJson(tree) works on: its argument obj, and the
\* object out that the default parameter (out = {}) creates for this call
Heap(obj, o) == [obj |-> obj, out |-> o]
\* out[key] = v
AssignToArgument(heap, key, v) == [heap EXCEPT !.obj = Obj(SetProp(heap.obj.v, key, v))]
Assign(heap, key, v) == [heap EXCEPT !.out = SetProp(heap.out, key, v)]
\* the walk of flattenJson over the entries es, with the writes it makes
RECURSIVE FlattenOnHeap(_, _, _, _)
FlattenOnHeap(heap, es, i, prefix) ==
  IF i > Len(es) THEN heap
  ELSE LET key == JoinKey(prefix, es[i].k)
           v   == es[i].n
       IN FlattenOnHeap(IF v.t = "obj" THEN FlattenOnHeap(heap, v.v, 1, key)
                                        ELSE Assign(heap, key, v),
                        es, i + 1, prefix)
\* flattenJson(tree), and then flattenJson(tree) again, on the same object
FlattenCall ==
  /\ pc = "call_flatten"
  /\ LET heap  == FlattenOnHeap(Heap(fnOut.tree, <<>>), fnOut.tree.v, 1, <<>>)
         flats == Append(fnOut.flats, heap.out) IN
     /\ fnOut' = [tree |-> heap.obj, flats |-> flats]
     /\ pc' = IF Len(flats) < 2 THEN "call_flatten" ELSE "returned_flatten"
  /\ UNCHANGED <<helperFrame, fnIn>>

\* --------------------------------- extractPlaceholders, call after call
MaxArgLen == 3
\* the starts of the matches of \{([^{}]+)\} in s: a "{", a non-empty run of
\* non-brace characters, a "}"
MatchStarts(s) ==
  {i \in 1..Len(s) : /\ s[i] = "{"
                     /\ RunEnd(s, i + 1) >= i + 1
                     /\ RunEnd(s, i + 1) + 1 <= Len(s)
                     /\ s[RunEnd(s, i + 1) + 1] = "}"}
\* PLACEHOLDER_REGEX.exec(s) with the regex's lastIndex li: the leftmost match
\* that starts at index li or later moves lastIndex behind it; no match sets
\* lastIndex to 0
RegexExecKeepsLastIndex(s, li) ==
  LET from == {i \in MatchStarts(s) : i > li}
  IN IF from = {} THEN [found |-> FALSE, name |-> <<>>, lastIndex |-> li]
     ELSE LET i == CHOOSE k \in from : \A j \in from : k <= j
              e == RunEnd(s, i + 1)
          IN [found |-> TRUE, name |-> SubSeq(s, i + 1, e), lastIndex |-> e + 1]
RegexExec(s, li) ==
  LET from == {i \in MatchStarts(s) : i > li}
  IN IF from = {} THEN [found |-> FALSE, name |-> <<>>, lastIndex |-> 0]
     ELSE LET i == CHOOSE k \in from : \A j \in from : k <= j
              e == RunEnd(s, i + 1)
          IN [found |-> TRUE, name |-> SubSeq(s, i + 1, e), lastIndex |-> e + 1]
\* while ((m = PLACEHOLDER_REGEX.exec(str))) set.add(m[1])
RECURSIVE ExecLoop(_, _, _)
ExecLoop(s, li, set) ==
  LET m == RegexExec(s, li)
  IN IF m.found THEN ExecLoop(s, m.lastIndex, set \cup {m.name})
     ELSE [set |-> set, lastIndex |-> m.lastIndex]
\* extractPlaceholders(str), the shared regex having lastIndex li at the call
ExtractWithRegex(n, li) ==
  IF n.t # "str" THEN [set |-> {}, lastIndex |-> li] ELSE ExecLoop(n.v, li, {})
\* the values of two calls in a row
RegexArgs == {Str(t) : t \in SeqsUpTo({"{", "}", "p"}, MaxArgLen)} \cup NonStrings
\* the next call of the sequence: extractPlaceholders(fnIn[k])
ExtractNext ==
  /\ pc = "call_extract_seq"
  /\ LET k == Len(fnOut.sets) + 1
         r == ExtractWithRegex(fnIn[k], fnOut.lastIndex) IN
     /\ fnOut' = [lastIndex |-> r.lastIndex, sets |-> Append(fnOut.sets, r.set)]
     /\ pc' = IF k < Len(fnIn) THEN "call_extract_seq" ELSE "returned_extract_seq"
  /\ UNCHANGED <<helperFrame, fnIn>>

InitHelpers ==
  /\ InitFrame
  /\ \/ pc = "call_roundtrip" /\ fnIn \in Trees
     \/ pc = "call_unflatten" /\ fnIn \in FlatMaps
     \/ pc = "call_validate"
          /\ fnIn \in [sourceFlat : ValidatedMaps, targetFlat : ValidatedMaps]
     \/ pc = "call_extract" /\ fnIn \in {Str(t) : t \in PhTexts} \cup NonStrings
     \/ pc = "call_fetch" /\ fnIn \in Listings
     \/ pc = "call_keys" /\ fnIn \in PairNames \X PairNames
     \/ pc = "call_flatten" /\ fnIn \in Trees
     \/ pc = "call_extract_seq" /\ fnIn \in RegexArgs \X RegexArgs
  /\ fnOut = CASE pc = "call_flatten" -> [tree |-> fnIn, flats |-> <<>>]
               [] pc = "call_extract_seq" -> [lastIndex |-> 0, sets |-> <<>>]
               [] OTHER -> <<>>
NextHelpers ==
  \/ RoundTrip \/ Unflatten \/ ValidateCall \/ Extract \/ FetchBatchResults
  \/ StagingKeys \/ FlattenCall \/ ExtractNext
SpecHelpers == InitHelpers /\ [][NextHelpers]_vars

\* C22 as stated: every tree of string, number and boolean leaves without
\* arrays comes back from unflatten(flatten(T)) unchanged.
C22_RoundTripOfEveryTree ==
  pc = "returned_roundtrip" => fnOut.tree = fnIn

\* no key is empty or holds a ".", and no object inside the tree is empty
PlainKey(k) == k # <<>> /\ \A i \in 1..Len(k) : k[i] # "."
RECURSIVE PlainTree(_)
PlainTree(node) ==
  node.t = "obj" =>
    \A i \in 1..Len(node.v) :
      /\ PlainKey(node.v[i].k)
      /\ node.v[i].n.t = "obj" => node.v[i].n.v # <<>> /\ PlainTree(node.v[i].n)

\* C22: a tree of string, number and boolean leaves without arrays, whose keys
\* are non-empty and hold no ".", and without an empty object inside, comes
\* back from unflatten(flatten(T)) unchanged.
C22_RoundTripOfPlainTrees ==
  pc = "returned_roundtrip" /\ PlainTree(fnIn) => fnOut.tree = fnIn
C22_Witness ==
  /\ pc = "returned_roundtrip" /\ PlainTree(fnIn) /\ fnOut.tree = fnIn
  /\ Len(fnOut.flat) = 2 /\ \E i \in 1..Len(fnIn.v) : fnIn.v[i].n.t = "obj"

\* C23: with both "a" and "a.b" in the flat map, the entry that comes later
\* decides node a: the leaf when "a" is later, an object holding b when "a.b" is.
C23_LastWriteWinsEitherOrder ==
  pc = "returned_unflatten" /\ HasOwn(fnIn, <<"a">>) /\ HasOwn(fnIn, <<"a", ".", "b">>) =>
    LET ia  == CHOOSE i \in 1..Len(fnIn) : fnIn[i].k = <<"a">>
        iab == CHOOSE i \in 1..Len(fnIn) : fnIn[i].k = <<"a", ".", "b">>
    IN /\ fnOut.t = "obj"
       /\ Get(fnOut.v, <<"a">>) = IF ia > iab THEN fnIn[ia].n
                                   ELSE Obj(<<Entry(<<"b">>, fnIn[iab].n)>>)

KeysOf(map) == {map[i].k : i \in 1..Len(map)}
MissingKeys == KeysOf(fnIn.sourceFlat) \ KeysOf(fnIn.targetFlat)
ExtraKeys == KeysOf(fnIn.targetFlat) \ KeysOf(fnIn.sourceFlat)
SharedKeys == KeysOf(fnIn.sourceFlat) \cap KeysOf(fnIn.targetFlat)
\* the names n with "{" n "}" in s, n a non-empty run of non-brace characters
NamesIn(s) ==
  {SubSeq(s, i + 1, j - 1) : <<i, j>> \in
     {p \in (1..Len(s)) \X (1..Len(s)) :
        /\ p[1] + 1 < p[2] /\ s[p[1]] = "{" /\ s[p[2]] = "}"
        /\ \A k \in (p[1] + 1)..(p[2] - 1) : s[k] \notin {"{", "}"}}}
PhOf(n) == IF n.t = "str" THEN NamesIn(n.v) ELSE {}
\* the shared keys whose placeholder sets differ
SharedMismatches ==
  {k \in SharedKeys : PhOf(Get(fnIn.sourceFlat, k)) # PhOf(Get(fnIn.targetFlat, k))}
ErrorsOfType(type) == SelectSeq(fnOut.errors, LAMBDA e : e.type = type)
ReportedItems ==
  IF ErrorsOfType("placeholder_mismatch") = <<>> THEN {}
  ELSE Range(ErrorsOfType("placeholder_mismatch")[1].items)

\* C24: ok is true exactly when no key is missing, none is extra and no shared
\* key differs in its placeholders; missing_keys and extra_keys are reported
\* exactly when their set difference is not empty, and list exactly it;
\* identical maps give ok with no error.
C24_OkIffNothingToReport ==
  pc = "returned_validate" =>
    /\ fnOut.ok <=> (MissingKeys = {} /\ ExtraKeys = {} /\ SharedMismatches = {})
    /\ fnOut.ok <=> (fnOut.errors = <<>>)
    /\ Len(ErrorsOfType("missing_keys")) = IF MissingKeys = {} THEN 0 ELSE 1
    /\ Len(ErrorsOfType("extra_keys")) = IF ExtraKeys = {} THEN 0 ELSE 1
    /\ \A i \in 1..Len(fnOut.errors) :
         /\ fnOut.errors[i].type = "missing_keys" => Range(fnOut.errors[i].keys) = MissingKeys
         /\ fnOut.errors[i].type = "extra_keys" => Range(fnOut.errors[i].keys) = ExtraKeys
    /\ fnIn.sourceFlat = fnIn.targetFlat => fnOut.ok /\ fnOut.errors = <<>>
C24_Witness ==
  /\ pc = "returned_validate" /\ ~fnOut.ok
  /\ MissingKeys # {} /\ ExtraKeys # {} /\ Len(fnOut.errors) >= 2

\* C25: the keys with a placeholder_mismatch item are exactly the shared keys
\* whose placeholder sets differ, each with missingPH = source minus target and
\* extraPH = target minus source; a key absent from the target has no item.
C25_MismatchesForSharedKeysOnly ==
  pc = "returned_validate" =>
    /\ {d.key : d \in ReportedItems} = SharedMismatches
    /\ \A d \in ReportedItems :
         /\ d.missingPH = PhOf(Get(fnIn.sourceFlat, d.key)) \ PhOf(Get(fnIn.targetFlat, d.key))
         /\ d.extraPH = PhOf(Get(fnIn.targetFlat, d.key)) \ PhOf(Get(fnIn.sourceFlat, d.key))
    /\ \A d \in ReportedItems : d.key \notin MissingKeys

\* C26: extractPlaceholders gives the empty set for a value that is no string,
\* and for a string exactly the set of the names n such that "{" n "}" occurs in
\* it with n a non-empty run of non-brace characters.
C26_PlaceholdersAreTheBracedNames ==
  pc = "returned_extract" => fnOut = IF fnIn.t = "str" THEN NamesIn(fnIn.v) ELSE {}
C26_Witness ==
  /\ pc = "returned_extract" /\ fnIn.t = "str" /\ Cardinality(fnOut) = 1
  /\ Len(fnIn.v) = 6 /\ SubSeq(fnIn.v, 1, 3) = SubSeq(fnIn.v, 4, 6)

\* the object fetchBatchResults has to select: the first listed one whose key
\* ends in ".out", else the first listed one
Selected(i) ==
  /\ i \in 1..Len(fnIn)
  /\ \/ IsOutKey(fnIn[i].Key) /\ \A j \in 1..(i - 1) : ~IsOutKey(fnIn[j].Key)
     \/ i = 1 /\ \A j \in 1..Len(fnIn) : ~IsOutKey(fnIn[j].Key)
\* the lines of a text: its pieces between line ends, a last empty piece (after
\* the final line end, or of an empty text) not being a line
LinesOfFile(text) ==
  LET ls == SplitLines(text)
  IN IF Last(ls) = <<>> THEN SubSeq(ls, 1, Len(ls) - 1) ELSE ls
RecordsOf(ls) ==
  [i \in 1..Len(ls) |-> IF IsJsonText(ls[i]) THEN [t |-> "num", v |-> Trim(ls[i])]
                        ELSE TextRecord(ls[i])]

\* C28 as stated: the selected object is the first ".out" one, else the first;
\* an empty listing fails with the no-results error; the records are one per
\* line of the selected object, in file order.
C28_OneRecordPerLineOfTheObject ==
  pc = "returned_fetch" =>
    /\ (fnOut.thrown = "No batch outputs") <=> (fnIn = <<>>)
    /\ fnIn # <<>> => \E i \in 1..Len(fnIn) : Selected(i) /\ fnOut.key = fnIn[i].Key
    /\ fnOut.thrown = "" =>
         \E i \in 1..Len(fnIn) : Selected(i) /\ fnOut.records = RecordsOf(LinesOfFile(fnIn[i].text))

\* C28: as above, but the records are one per line of the selected object's
\* text with the white space at its two ends removed: leading and trailing
\* blank lines give no record, and an empty or blank object gives the one
\* record {text: ""}.
C28_OneRecordPerLineOfTheTrimmedText ==
  pc = "returned_fetch" =>
    /\ (fnOut.thrown = "No batch outputs") <=> (fnIn = <<>>)
    /\ fnIn # <<>> => \E i \in 1..Len(fnIn) : Selected(i) /\ fnOut.key = fnIn[i].Key
    /\ fnOut.thrown = "" =>
         \E i \in 1..Len(fnIn) :
            /\ Selected(i)
            /\ fnOut.records = RecordsOf(SplitLines(Trim(fnIn[i].text)))
            /\ Trim(fnIn[i].text) = <<>> => fnOut.records = <<TextRecord(<<>>)>>
C28_Witness ==
  /\ pc = "returned_fetch" /\ fnOut.thrown = "" /\ Len(fnOut.records) = 2
  /\ fnIn[1].text[1] = "\n" /\ fnOut.records[1].t = "num" /\ fnOut.records[2].t = "obj"

\* the target locale of the pair begun last
PairTarget == Targets[Last(started)[2]]
PairModule == modules[Last(started)[1]]

\* C27: once the translate stage of a pair has produced the translated flat
\* map, its keys are the keys of the source flat map, each once and in the
\* same order.
C27_TranslatedKeysAreSourceKeys ==
  started # <<>> /\ translatedFlat # Null =>
    /\ translatedFlat.t = "obj"
    /\ [i \in 1..Len(translatedFlat.v) |-> translatedFlat.v[i].k]
         = [i \in 1..Len(flatSource) |-> flatSource[i].k]
C27_Witness ==
  /\ pc = "convert" /\ translatedFlat # Null /\ Len(flatSource) >= 2
  /\ Len(translatedFlat.v) = Len(flatSource) /\ LogHasAction("batch_fail")

\* C29: with the batch strategy disabled, a pair whose upload was rejected is
\* still translated per string.
C29_FallbackWithoutStaging ==
  (PairEnded /\ ~BatchEnabled(forceSync, roleArn) /\ UploadRejected)
  => (syncCalls # <<>> /\ LogHas("tr_sync_end"))

\* C30: every translateText call of a pair names the remote code of the pair's
\* target; the output file, the staged input key and the output prefix of the
\* pair name its folder code.
C30_RemoteCodeForCallsFolderCodeForNames ==
  started # <<>> =>
    /\ \A i \in 1..Len(syncCalls) : syncCalls[i].lang = PairTarget.awsCode
    /\ \A f \in files : f.by = Len(started) => f.path = <<PairModule, PairTarget.folderCode>>
    /\ inputKey # <<>> => inputKey[3] = PairModule /\ inputKey[4] = PairTarget.folderCode
    /\ outputPrefix # <<>> => outputPrefix[3] = PairModule /\ outputPrefix[4] = PairTarget.folderCode
    /\ inputStaged => inputKey # <<>>
C30_Witness ==
  /\ PairEnded /\ Last(results) = "end" /\ PairTarget.awsCode # PairTarget.folderCode
  /\ syncCalls # <<>> /\ FileOfPair /\ inputKey # <<>> /\ outputPrefix # <<>>

\* ------------------------------------------------------------ fourth group
\* C31: two pairs with the same module name and locale code, staged under the
\* same timestamp, get different input keys and different output prefixes
\* unless their random suffixes are equal.
C31_LocationsDifferUnlessSuffixesCollide ==
  (pc = "returned_keys" /\ fnIn[1] = fnIn[2] /\ fnOut[1].uid # fnOut[2].uid)
  => (fnOut[1].inputKey # fnOut[2].inputKey /\ fnOut[1].outputPrefix # fnOut[2].outputPrefix)

\* C32: two calls of flatten on the same tree return maps with the same
\* key/value pairs (those of the tree's leaves under their dotted paths), and
\* the tree is the same after each call as before it.
C32_FlattenTwiceSamePairsTreeUnchanged ==
  pc \in {"call_flatten", "returned_flatten"} =>
    /\ fnOut.tree = fnIn
    /\ \A i, j \in 1..Len(fnOut.flats) : Range(fnOut.flats[i]) = Range(fnOut.flats[j])
    /\ \A i \in 1..Len(fnOut.flats) :
         DistinctKeys(fnOut.flats[i]) /\ fnOut.flats[i] = flattenJson(fnIn, <<>>, <<>>)
C32_Witness ==
  /\ pc = "returned_flatten" /\ Len(fnOut.flats) = 2 /\ Len(fnOut.flats[2]) = 2
  /\ fnOut.tree = fnIn /\ \E i \in 1..Len(fnIn.v) : fnIn.v[i].n.t = "obj"

\* the first poll that observed a terminal status, 0 when none did
FirstTerminal ==
  IF \E i \in 1..Len(observed) : observed[i].st \in Terminal
  THEN CHOOSE i \in 1..Len(observed) :
         observed[i].st \in Terminal /\ \A j \in 1..(i - 1) : observed[j].st \notin Terminal
  ELSE 0

\* C34: the wait ends only by a poll: it has returned or thrown for a status
\* exactly when a terminal status was observed; the polls made are then as many
\* as the index of the first terminal observation (no poll follows it); one
\* sleep lies between two consecutive polls and none follows the terminal one.
C34_PollsEndAtFirstTerminal ==
  LET n == Len(observed) IN
  /\ FirstTerminal \in {0, n}
  /\ FirstTerminal # 0 <=> (pc = "wait_returned" \/ (pc = "wait_thrown" /\ batchErr.at = "wait"))
  /\ FirstTerminal # 0 => sleeps = n - 1
  /\ pc = "sleep" => n >= 1 /\ sleeps = n - 1
  /\ pc = "poll" => sleeps = n
  /\ pc = "wait_thrown" /\ batchErr.at = "poll_call" => sleeps = n
C34_Witness ==
  /\ pc = "wait_thrown" /\ FirstTerminal = 3 /\ Len(observed) = 3 /\ sleeps = 2
  /\ observed[3].st = "STOPPED"

HasFlag(lg, flag) == \E i \in 1..Len(lg) : lg[i].flag = flag

PairValidation == validateKeyAndPlaceholderParity(flatSource, translatedFlat.v)

\* C36: whenever a pair has a translated flat map, validating it against the
\* source flat map reports neither missing_keys nor extra_keys; a pair whose
\* validation failed has exactly one error, a placeholder_mismatch.
C36_OnlyPlaceholderMismatchInARun ==
  started # <<>> /\ translatedFlat # Null =>
    /\ \A i \in 1..Len(PairValidation.errors) :
         PairValidation.errors[i].type = "placeholder_mismatch"
    /\ LogHas("tr_validate_fail") =>
         ~PairValidation.ok /\ Len(PairValidation.errors) = 1
    /\ LogHas("tr_validate_pass") => PairValidation.ok
C36_Witness ==
  /\ PairEnded /\ LogHas("tr_validate_fail") /\ Len(flatSource) >= 2
  /\ PairValidation.errors[1].type = "placeholder_mismatch"
  /\ PairValidation.errors[1].items[1].missingPH = {<<"x">>}

\* the batch strategy is enabled for the run and the pair begun last has
\* staged its input
BatchPathEntered == BatchEnabled(forceSync, roleArn) /\ LogHas("tr_s3_upload_end")

\* C33: in the batch path the translated flat map is made of the records
\* fetched from the batch output, attached to the source keys by position: a
\* pair that entered the batch path and has a translated flat map has fetched
\* batch results and got none of its texts from a per-string call.
C33_BatchRecordsAttachedByPosition ==
  (started # <<>> /\ BatchPathEntered /\ translatedFlat # Null)
  => (LogHasAction("batch_fetch") /\ syncCalls = <<>>)

\* C37: a pair that entered the batch path and whose job completed, with
\* fewer records than source keys or not, ends without a batch failure and
\* without the per-string fallback.
C37_ShortBatchResultNoFallback ==
  (PairEnded /\ BatchPathEntered)
  => (~LogHasAction("batch_fail") /\ ~LogHas("tr_sync_start"))

ActionPositions(action) == {i \in 1..Len(log) : log[i].action = action}

\* C38: the events of a pair start with its one module_locale_begin; while the
\* pair is in progress no outcome and no progress event of it is logged and
\* every earlier pair has been reported; when it has ended, exactly one of
\* module_locale_end (success) and module_locale_error (failure, critical) is
\* logged, directly followed by the pair's one progress event, and nothing of
\* the next pair comes before that progress event.
C38_BeginThenOutcomeThenProgress ==
  started # <<>> =>
    LET ends   == ActionPositions("module_locale_end")
        errors == ActionPositions("module_locale_error")
    IN /\ ActionPositions("module_locale_begin") = {1}
       /\ log[1].flag = "tr_runner_start"
       /\ pc \in PairStages =>
            /\ ends = {} /\ errors = {} /\ ProgressInLog = {}
            /\ Len(results) = Len(started) - 1 /\ Len(ticks) = Len(started)
       /\ pc \notin PairStages =>
            /\ PairEnded /\ Len(ticks) = Len(results) + 1
            /\ Cardinality(ends \cup errors) = 1 /\ Cardinality(ProgressInLog) = 1
            /\ (ends # {}) <=> (Last(results) = "end")
            /\ \A i \in ends : log[i].flag = "tr_runner_end" /\ ~log[i].critical
            /\ \A i \in errors : log[i].flag = "tr_error" /\ log[i].critical
            /\ \A i \in ends \cup errors : i > 1 /\ ProgressInLog = {i + 1}
            /\ \A j \in ProgressInLog : j = IF pc = "done" THEN Len(log) - 1 ELSE Len(log)
C38_Witness ==
  /\ PairEnded /\ pc = "begin" /\ Len(results) >= 2
  /\ Last(results) = "error" /\ results[Len(results) - 1] = "end"
  /\ ActionPositions("module_locale_error") = {Len(log) - 1}

\* C39: at the end of every call of extractPlaceholders the shared regex has
\* lastIndex 0, and the result of each call of a sequence is the set of the
\* braced names of that call's own argument, whatever was passed before.
C39_RegexRestartsForEveryCall ==
  pc \in {"call_extract_seq", "returned_extract_seq"} =>
    /\ fnOut.lastIndex = 0
    /\ \A k \in 1..Len(fnOut.sets) :
         fnOut.sets[k] = PhOf(fnIn[k]) /\ fnOut.sets[k] = extractPlaceholders(fnIn[k])
C39_Witness ==
  /\ pc = "returned_extract_seq" /\ Len(fnOut.sets) = 2 /\ fnOut.lastIndex = 0
  /\ fnIn[1] = Str(<<"{", "p", "}">>) /\ fnIn[2] = Str(<<"{", "p", "}">>)
  /\ fnOut.sets[2] = {<<"p">>}
====
